---- MODULE Spec2Model ----
(***************************************************************************)
(* A model of aws_xray_sdk/core/patcher.py: the patch registry             *)
(* _PATCHED_MODULES, the native adapter dispatch (_patch_module, _patch)   *)
(* and the static source scan (_external_recursive_patch, _patch_file,     *)
(* XRayPatcherVisitor).                                                    *)
(*                                                                         *)
(* Module identifiers and paths are sequences of tokens: name segments     *)
(* and the separators "." and "/", so that 'a.b'.replace('.', '/') and     *)
(* '.'.join([loader.path, submodule]) are computed, not assumed.           *)
(*                                                                         *)
(* pkgutil, open/ast.parse and wrapt are the environment.  They are        *)
(* modelled over a fixed synthetic file system (iter_modules, ModulePaths, *)
(* SourceFiles) and the attributes of the live modules (LiveAttrs):        *)
(* get_loader(p) finds the module or package at path p, iter_modules       *)
(* yields the children of that package in name order with loader.path the  *)
(* package's path as it was looked up, and wrap_function_wrapper imports   *)
(* the module by name and resolves the attribute path on it.               *)
(***************************************************************************)
EXTENDS Naturals, Sequences, FiniteSets, TLC

\* ------------------------------------------------------------------ bounds

\* Calls of patch()/patch_all() started in one behaviour.
MaxCalls == 2
\* Supported libraries that are not installed: their adapters raise.
MaxFail == 1
\* Threads that may call patch() (SpecConcurrent); Spec runs thread 1 only.
NThreads == 2
\* Statements in the body of a class the visitor is run on (SpecVisitor).
MaxBody == 3

Threads == 1..NThreads

\* --------------------------------------------------------------- constants

Id(s) == <<s>>

SUPPORTED_MODULES ==
    { Id("botocore"), Id("pynamodb"), Id("requests"), Id("sqlite3"),
      Id("mysql"), Id("httplib"), Id("pymongo"), Id("psycopg2") }

NO_DOUBLE_PATCH ==
    { Id("botocore"), Id("pynamodb"), Id("requests"), Id("sqlite3"),
      Id("mysql"), Id("pymongo"), Id("psycopg2") }

\* ------------------------------------------------------------- environment

\* ast nodes: a FunctionDef (its body is never visited) or a ClassDef.
FunctionDef(n) == [t |-> "FunctionDef", name |-> n, body |-> <<>>]
ClassDef(n, b) == [t |-> "ClassDef", name |-> n, body |-> b]

\* The paths at which pkgutil.get_loader finds a module or a package.
\*   pkg/__init__.py   def f; class C: def m1, def m2
\*   pkg/sub/__init__.py   def g        (a sub-package without submodules)
\*   brk/e.py          def p; def ghost (ghost is no attribute of the live
\*                     module: it is defined under a false condition)
\*   brk/__init__.py   (empty)
\*   ns/m.py           def q            (ns is a namespace package: it has
\*                     no __init__.py)
\*   emp/__init__.py   (empty)
\*   emp/a.py          def k
\*   emp/deep/__init__.py  (empty)
\*   emp/deep/x.py     (no function and no class)
ModulePaths ==
    { <<"pkg">>, <<"pkg", "/", "sub">>,
      <<"brk">>, <<"brk", "/", "e">>, <<"ns">>, <<"ns", "/", "m">>,
      <<"emp">>, <<"emp", "/", "a">>, <<"emp", "/", "deep">>,
      <<"emp", "/", "deep", "/", "x">> }

\* pkgutil.iter_modules over the package at `path`: (submodule, ispkg) in
\* name order; nothing for a plain module or a path that is no package.
iter_modules(path) ==
    CASE path = <<"pkg">> ->
             << [loader_path |-> path, submodule |-> "sub", ispkg |-> TRUE] >>
      [] path = <<"brk">> ->
             << [loader_path |-> path, submodule |-> "e", ispkg |-> FALSE] >>
      [] path = <<"ns">> ->
             << [loader_path |-> path, submodule |-> "m", ispkg |-> FALSE] >>
      [] path = <<"emp">> ->
             << [loader_path |-> path, submodule |-> "a", ispkg |-> FALSE],
                [loader_path |-> path, submodule |-> "deep", ispkg |-> TRUE] >>
      [] path = <<"emp", "/", "deep">> ->
             << [loader_path |-> path, submodule |-> "x", ispkg |-> FALSE] >>
      [] OTHER -> << >>

\* The files open() finds, with what ast.parse returns for each.
SourceFiles ==
    { <<"pkg", "/", "__init__.py">>,
      <<"pkg", "/", "sub", "/", "__init__.py">>,
      <<"brk", "/", "__init__.py">>, <<"brk", "/", "e", ".py">>,
      <<"ns", "/", "m", ".py">>,
      <<"emp", "/", "__init__.py">>, <<"emp", "/", "a", ".py">>,
      <<"emp", "/", "deep", "/", "__init__.py">>,
      <<"emp", "/", "deep", "/", "x", ".py">> }

ast_parse(f) ==
    CASE f = <<"pkg", "/", "__init__.py">> ->
             << FunctionDef("f"),
                ClassDef("C", << FunctionDef("m1"), FunctionDef("m2") >>) >>
      [] f = <<"pkg", "/", "sub", "/", "__init__.py">> -> << FunctionDef("g") >>
      [] f = <<"brk", "/", "e", ".py">> ->
             << FunctionDef("p"), FunctionDef("ghost") >>
      [] f = <<"ns", "/", "m", ".py">> -> << FunctionDef("q") >>
      [] f = <<"emp", "/", "a", ".py">> -> << FunctionDef("k") >>
      [] OTHER -> << >>

\* The attribute paths wrapt resolves on the live module imported under the
\* dotted name `module`; a name that cannot be imported has none.
LiveAttrs(module) ==
    CASE module = <<"pkg">> -> { "f", "C.m1", "C.m2" }
      [] module = <<"pkg", ".", "sub">> -> { "g" }
      [] module = <<"brk", ".", "e">> -> { "p" }
      [] module = <<"ns", ".", "m">> -> { "q" }
      [] module = <<"emp", ".", "a">> -> { "k" }
      [] OTHER -> { }

LiveModules ==
    { <<"pkg">>, <<"pkg", ".", "sub">>,
      <<"brk">>, <<"brk", ".", "e">>, <<"ns">>, <<"ns", ".", "m">>,
      <<"emp">>, <<"emp", ".", "a">>, <<"emp", ".", "deep">>,
      <<"emp", ".", "deep", ".", "x">> }

\* Every callable of the live modules: what a wrapper can be put around.
Callables ==
    UNION { { <<m, a>> : a \in LiveAttrs(m) } : m \in LiveModules }

\* The requests a caller makes: names with and without a substitution
\* entry, native, external and unlocatable names, alone and mixed.
Requests ==
    { { Id("boto3") },
      { Id("pynamodb") },
      { Id("pynamodb"), Id("requests") },
      { Id("requests"), Id("nomod") },
      { Id("nomod"), <<"pkg", ".", "nope">> },
      { Id("requests"), <<"pkg">> },
      { <<"pkg">> },
      { <<"pkg", ".", "sub">> },
      { <<"brk">> },
      { <<"ns">>, Id("nomod") },
      { <<"ns">> } }

\* The libraries whose absence the behaviours of Spec range over.
OptionalLibraries == { Id("botocore"), Id("pynamodb"), Id("requests") }

\* The requests two concurrent callers make in SpecConcurrent.
ConcurrentRequests == { { Id("boto3") }, { <<"pkg">> }, { <<"ns">> } }

\* Requests for external packages and their parts (SpecExternal): a package
\* with a plain module and a sub-package, its parts by their dotted names,
\* and the packages whose scan fails or skips a part.
ExternalRequests ==
    { { <<"emp">> }, { <<"emp", ".", "deep">> },
      { <<"emp", ".", "deep", ".", "x">> }, { <<"emp", ".", "a">> },
      { <<"pkg">> }, { <<"ns">> } }

\* What the caller passes to a wrapped callable and what the original does
\* with it: it returns a value or raises an error.
Args == { << >>, << "a" >> }
Kwargs == { << >>, << << "key", "b" >> >> }
Originals ==
    { [ kind |-> "return", value |-> "None" ],
      [ kind |-> "return", value |-> "V" ],
      [ kind |-> "raise", value |-> "ValueError" ] }

\* def and class statements bind __name__ to the bare name of the
\* definition: the last component of the attribute path.
FunctionName(attr) ==
    CASE attr = "C.m1" -> "m1"
      [] attr = "C.m2" -> "m2"
      [] OTHER -> attr

\* ------------------------------------------------------------------- state

VARIABLES
    PATCHED_MODULES,  \* _PATCHED_MODULES
    wrapped,          \* callable -> number of _xray_traced wrappers around it
    adapter_runs,     \* identifier -> completed runs of its adapter's patch()
    ncalls,           \* calls of patch()/patch_all() started so far
    uninstalled,      \* supported libraries whose adapter raises (ImportError)
    traced,           \* the invocation of _xray_traced in progress
    tree,             \* the syntax tree XRayPatcherVisitor is run on
    th                \* thread -> its frame of patch()

vars ==
    << PATCHED_MODULES, wrapped, adapter_runs, ncalls, uninstalled, traced,
       tree, th >>

\* ------------------------------------------------------------ pure helpers

\* str.replace(old, new) on a token sequence.
replace(s, old, new) ==
    [ i \in DOMAIN s |-> IF s[i] = old THEN new ELSE s[i] ]

\* sep.join([a, b]) for a token sequence a and a name b.
join(sep, a, b) == a \o << sep, b >>

\* Expand without the companion of pynamodb (line 55 left out).
Expand_pynamodbAlone(module_to_patch) ==
    IF module_to_patch = Id("boto3") THEN { Id("botocore") }
    ELSE { module_to_patch }

\* patch(), lines 46-58: what one requested name adds to `modules`.
Expand(module_to_patch) ==
    IF module_to_patch = Id("boto3") THEN { Id("botocore") }
    ELSE IF module_to_patch = Id("pynamodb")
         THEN { Id("botocore"), module_to_patch }
         ELSE { module_to_patch }

\* patch(), lines 45-58.
ResolveModules(modules_to_patch) ==
    UNION { Expand(n) : n \in modules_to_patch }

\* A probe that never fails.
is_valid_import_any(path) == path = path

\* _is_valid_import, lines 40-41.
is_valid_import(path) == path \in ModulePaths

\* NativeModules without the subtraction of lines 60-61: every module is
\* handed to _patch_module.
NativeModules_all(modules) == modules

\* patch(), lines 60-64.
NativeModules(modules) ==
    LET unsupported_modules == modules \ SUPPORTED_MODULES
    IN  modules \ unsupported_modules

ExternalModules(modules) ==
    LET unsupported_modules == modules \ SUPPORTED_MODULES
    IN  { module \in unsupported_modules :
              is_valid_import(replace(module, ".", "/")) }

\* UnsupportedModules without line 64: the external modules stay in it.
UnsupportedModules_keepExternal(modules) == modules \ SUPPORTED_MODULES

UnsupportedModules(modules) ==
    LET unsupported_modules == modules \ SUPPORTED_MODULES
    IN  unsupported_modules \ ExternalModules(modules)

\* ', '.join(s): the elements of s once each, in some iteration order.
Joined(s) ==
    { q \in [1..Cardinality(s) -> s] :
          \A i, j \in 1..Cardinality(s) : i # j => q[i] # q[j] }

\* XRayPatcherVisitor, lines 113-124: the names visit() passes to
\* wrap_function_wrapper, in order, for the statements `body` visited with
\* _current_class = `current_class` ("" is None).  visit_ClassDef sets
\* _current_class, visits the class body and resets it to None, so what
\* follows a class in the same body is visited with None.
RECURSIVE VisitNames(_, _)
VisitNames(body, current_class) ==
    IF body = << >> THEN << >>
    ELSE LET node == Head(body)
         IN  IF node.t = "FunctionDef"
             THEN << IF current_class # ""
                     THEN current_class \o "." \o node.name
                     ELSE node.name >>
                  \o VisitNames(Tail(body), current_class)
             ELSE VisitNames(node.body, node.name)
                  \o VisitNames(Tail(body), "")

\* external_recursive_patch without the recursion of lines 149-150: a
\* sub-package is passed over.
external_recursive_patch_flat(module, module_path) ==
    LET path == IF module_path = << >>
                THEN replace(module, ".", "/") ELSE module_path
        subs == iter_modules(path)
        Loop[i \in 0..Len(subs)] ==
            IF i = 0 THEN << >>
            ELSE LET loader == subs[i]
                     submod == join(".", loader.loader_path, loader.submodule)
                     submodule_path ==
                         join("/", loader.loader_path, loader.submodule)
                 IN  Loop[i - 1] \o
                     ( IF loader.ispkg
                       THEN << >>
                       ELSE << [ module |-> submod,
                                 f |-> submodule_path \o << ".py" >> ] >> )
    IN  Loop[Len(subs)] \o
        ( IF Len(subs) > 0
          THEN << [ module |-> module,
                    f |-> subs[Len(subs)].loader_path
                              \o << "/", "__init__.py" >> ] >>
          ELSE << >> )

\* _external_recursive_patch, lines 140-156: the calls of _patch_file it
\* makes, in order.  Which calls are made depends on the file system alone;
\* an exception in one of them ends them all (nothing catches it).
RECURSIVE external_recursive_patch(_, _)
external_recursive_patch(module, module_path) ==
    LET path == IF module_path = << >>
                THEN replace(module, ".", "/") ELSE module_path
        subs == iter_modules(path)
        Loop[i \in 0..Len(subs)] ==
            IF i = 0 THEN << >>
            ELSE LET loader == subs[i]
                     submod == join(".", loader.loader_path, loader.submodule)
                     submodule_path ==
                         join("/", loader.loader_path, loader.submodule)
                 IN  Loop[i - 1] \o
                     ( IF loader.ispkg
                       THEN external_recursive_patch(submod, submodule_path)
                       ELSE << [ module |-> submod,
                                 f |-> submodule_path \o << ".py" >> ] >> )
    IN  Loop[Len(subs)] \o
        ( IF Len(subs) > 0
          THEN << [ module |-> module,
                    f |-> subs[Len(subs)].loader_path
                              \o << "/", "__init__.py" >> ] >>
          ELSE << >> )

\* ----------------------------------------------------------------- frames

\* A thread that is not inside patch().  Beside the locals of patch() a
\* frame records what the call did: the identifiers it probed with
\* _is_valid_import, those it handed to _patch_module or
\* _external_recursive_patch (dispatched), those whose adapter it ran
\* (attempted) and whose adapter raised, the files it parsed (scanned), the
\* registry as it was on entry (pre), and how the call ended.
Idle ==
    [ pc |-> "idle", entry |-> "none", modules_to_patch |-> { },
      raise_errors |-> FALSE, native_modules |-> { },
      external_modules |-> { }, m |-> << >>, files |-> << >>,
      names |-> << >>, probed |-> { }, dispatched |-> { },
      attempted |-> { }, raised |-> { }, scanned |-> { },
      pre |-> { }, result |-> "none", message |-> << >> ]

\* No invocation of a wrapped callable is in progress.
NoCall ==
    [ pc |-> "idle", wrapped |-> << << >>, "" >>, args |-> << >>,
      kwargs |-> << >>, original |-> [ kind |-> "none", value |-> "" ],
      span_name |-> "", opened |-> 0, closed |-> 0, closed_with_error |-> FALSE,
      original_calls |-> 0, received |-> << >>,
      outcome |-> [ kind |-> "none", value |-> "" ],
      result |-> [ kind |-> "none", value |-> "" ] ]

\* No syntax tree has been parsed.
NoTree == [ pc |-> "none", body |-> << >>, names |-> << >> ]

InitWith(libraries) ==
    /\ uninstalled \in { u \in SUBSET libraries : Cardinality(u) <= MaxFail }
    /\ PATCHED_MODULES = { }
    /\ wrapped = [ c \in Callables |-> 0 ]
    /\ adapter_runs = [ i \in SUPPORTED_MODULES |-> 0 ]
    /\ ncalls = 0
    /\ th = [ t \in Threads |-> Idle ]
    /\ traced = NoCall
    /\ tree = NoTree

Init == InitWith(OptionalLibraries)

\* ---------------------------------------------------------------- actions

\* patch(), lines 44-68: resolve, classify and the pre-flight check.
Enter(t, entry, modules_to_patch, raise_errors) ==
    LET modules == ResolveModules(modules_to_patch)
        unsupported_modules == UnsupportedModules(modules)
        frame == [ Idle EXCEPT !.entry = entry,
                               !.modules_to_patch = modules_to_patch,
                               !.raise_errors = raise_errors,
                               !.probed = modules \ SUPPORTED_MODULES,
                               !.pre = PATCHED_MODULES ]
    IN  /\ th[t].pc = "idle"
        /\ ncalls < MaxCalls
        /\ ncalls' = ncalls + 1
        /\ IF unsupported_modules # { }
           THEN \E message \in Joined(unsupported_modules) :
                    th' = [ th EXCEPT ![t] =
                              [ frame EXCEPT !.pc = "done",
                                             !.result = "unsupported",
                                             !.message = message ] ]
           ELSE th' = [ th EXCEPT ![t] =
                          [ frame EXCEPT
                              !.pc = "native",
                              !.native_modules = NativeModules(modules),
                              !.external_modules = ExternalModules(modules) ] ]
        /\ UNCHANGED << PATCHED_MODULES, wrapped, adapter_runs, uninstalled, traced, tree >>

\* patch(modules_to_patch, raise_errors), lines 44-68.
patch(t, requests) ==
    \E modules_to_patch \in requests, raise_errors \in BOOLEAN :
        Enter(t, "patch", modules_to_patch, raise_errors)

\* patch_all passing raise_errors=True.
patch_all_strict(t) ==
    \E double_patch \in BOOLEAN :
        IF double_patch
        THEN Enter(t, "patch_all_double", SUPPORTED_MODULES, TRUE)
        ELSE Enter(t, "patch_all", NO_DOUBLE_PATCH, TRUE)

\* patch_all(double_patch), lines 33-37.
patch_all(t) ==
    \E double_patch \in BOOLEAN :
        IF double_patch
        THEN Enter(t, "patch_all_double", SUPPORTED_MODULES, FALSE)
        ELSE Enter(t, "patch_all", NO_DOUBLE_PATCH, FALSE)

\* patch_check without the registry check of lines 90-92.
patch_check_unchecked(t) ==
    /\ th[t].pc = "native"
    /\ IF th[t].native_modules = { }
       THEN th' = [ th EXCEPT ![t].pc = "external" ]
       ELSE \E module_to_patch \in th[t].native_modules :
               th' = [ th EXCEPT
                         ![t].native_modules = @ \ { module_to_patch },
                         ![t].m = module_to_patch,
                         ![t].dispatched = @ \cup { module_to_patch },
                         ![t].pc = "adapter" ]
    /\ UNCHANGED << PATCHED_MODULES, wrapped, adapter_runs, ncalls, uninstalled, traced, tree >>

\* patch_check with a loop that ends after its first identifier.
patch_check_once(t) ==
    /\ th[t].pc = "native"
    /\ IF th[t].native_modules = { }
       THEN th' = [ th EXCEPT ![t].pc = "external" ]
       ELSE \E module_to_patch \in th[t].native_modules :
               th' = [ th EXCEPT
                         ![t].native_modules = { },
                         ![t].m = module_to_patch,
                         ![t].dispatched = @ \cup { module_to_patch },
                         ![t].pc = IF module_to_patch \in PATCHED_MODULES
                                   THEN "native" ELSE "adapter" ]
    /\ UNCHANGED << PATCHED_MODULES, wrapped, adapter_runs, ncalls,
                    uninstalled, traced, tree >>

\* patch() line 70 with _patch_module and _patch lines 86-92: the next
\* member of native_modules, in any order, and the registry check.
patch_check(t) ==
    /\ th[t].pc = "native"
    /\ IF th[t].native_modules = { }
       THEN th' = [ th EXCEPT ![t].pc = "external" ]
       ELSE \E module_to_patch \in th[t].native_modules :
               th' = [ th EXCEPT
                         ![t].native_modules = @ \ { module_to_patch },
                         ![t].m = module_to_patch,
                         ![t].dispatched = @ \cup { module_to_patch },
                         ![t].pc = IF module_to_patch \in PATCHED_MODULES
                                   THEN "native" ELSE "adapter" ]
    /\ UNCHANGED << PATCHED_MODULES, wrapped, adapter_runs, ncalls, uninstalled, traced, tree >>

\* patch_adapter with a handler that re-raises whatever raise_errors is.
patch_adapter_reraise(t) ==
    LET module_to_patch == th[t].m
    IN  /\ th[t].pc = "adapter"
        /\ IF module_to_patch \in uninstalled
           THEN /\ th' = [ th EXCEPT
                             ![t].attempted = @ \cup { module_to_patch },
                             ![t].raised = @ \cup { module_to_patch },
                             ![t].pc = "done",
                             ![t].result = "adapter_error" ]
                /\ UNCHANGED adapter_runs
           ELSE /\ th' = [ th EXCEPT
                             ![t].attempted = @ \cup { module_to_patch },
                             ![t].pc = "mark" ]
                /\ adapter_runs' =
                       [ adapter_runs EXCEPT ![module_to_patch] = @ + 1 ]
        /\ UNCHANGED << PATCHED_MODULES, wrapped, ncalls, uninstalled, traced, tree >>

\* patch_adapter with a handler that swallows whatever raise_errors is.
patch_adapter_swallow(t) ==
    LET module_to_patch == th[t].m
    IN  /\ th[t].pc = "adapter"
        /\ IF module_to_patch \in uninstalled
           THEN /\ th' = [ th EXCEPT
                             ![t].attempted = @ \cup { module_to_patch },
                             ![t].raised = @ \cup { module_to_patch },
                             ![t].pc = "native" ]
                /\ UNCHANGED adapter_runs
           ELSE /\ th' = [ th EXCEPT
                             ![t].attempted = @ \cup { module_to_patch },
                             ![t].pc = "mark" ]
                /\ adapter_runs' =
                       [ adapter_runs EXCEPT ![module_to_patch] = @ + 1 ]
        /\ UNCHANGED << PATCHED_MODULES, wrapped, ncalls, uninstalled, traced, tree >>

\* _patch lines 94-95 and the handler of _patch_module, lines 80-83.  The
\* adapter of a library that is not installed raises when it is imported.
patch_adapter(t) ==
    LET module_to_patch == th[t].m
    IN  /\ th[t].pc = "adapter"
        /\ IF module_to_patch \in uninstalled
           THEN /\ th' = [ th EXCEPT
                             ![t].attempted = @ \cup { module_to_patch },
                             ![t].raised = @ \cup { module_to_patch },
                             ![t].pc = IF th[t].raise_errors
                                       THEN "done" ELSE "native",
                             ![t].result = IF th[t].raise_errors
                                           THEN "adapter_error" ELSE @ ]
                /\ UNCHANGED adapter_runs
           ELSE /\ th' = [ th EXCEPT
                             ![t].attempted = @ \cup { module_to_patch },
                             ![t].pc = "mark" ]
                /\ adapter_runs' =
                       [ adapter_runs EXCEPT ![module_to_patch] = @ + 1 ]
        /\ UNCHANGED << PATCHED_MODULES, wrapped, ncalls, uninstalled, traced, tree >>

\* patch_mark assigning a fresh set instead of adding to the registry.
patch_mark_replacing(t) ==
    /\ th[t].pc = "mark"
    /\ PATCHED_MODULES' = { th[t].m }
    /\ th' = [ th EXCEPT ![t].pc = "native" ]
    /\ UNCHANGED << wrapped, adapter_runs, ncalls, uninstalled, traced,
                    tree >>

\* _patch lines 97-98.
patch_mark(t) ==
    /\ th[t].pc = "mark"
    /\ PATCHED_MODULES' = PATCHED_MODULES \cup { th[t].m }
    /\ th' = [ th EXCEPT ![t].pc = "native" ]
    /\ UNCHANGED << wrapped, adapter_runs, ncalls, uninstalled, traced, tree >>

\* patch() lines 73-74: the next member of external_modules, in any order,
\* and the calls of _patch_file its recursion makes; line 75 when none is
\* left.
patch_external(t) ==
    /\ th[t].pc = "external"
    /\ IF th[t].external_modules = { }
       THEN th' = [ th EXCEPT ![t].pc = "done", ![t].result = "returned" ]
       ELSE \E module \in th[t].external_modules :
               th' = [ th EXCEPT
                         ![t].external_modules = @ \ { module },
                         ![t].m = module,
                         ![t].dispatched = @ \cup { module },
                         ![t].files =
                             external_recursive_patch(module, << >>),
                         ![t].pc = "file" ]
    /\ UNCHANGED << PATCHED_MODULES, wrapped, adapter_runs, ncalls, uninstalled, traced, tree >>

\* _patch_file lines 127-130, or the return of _external_recursive_patch
\* when no call is left.
patch_file_check(t) ==
    /\ th[t].pc = "file"
    /\ IF th[t].files = << >>
       THEN th' = [ th EXCEPT ![t].pc = "external" ]
       ELSE IF Head(th[t].files).module \in PATCHED_MODULES
            THEN th' = [ th EXCEPT ![t].files = Tail(@) ]
            ELSE th' = [ th EXCEPT ![t].pc = "open" ]
    /\ UNCHANGED << PATCHED_MODULES, wrapped, adapter_runs, ncalls, uninstalled, traced, tree >>

\* patch_file_parse with line 136 moved before the visit: the module is
\* recorded as soon as its file is parsed.
patch_file_parse_marking(t) ==
    LET call == Head(th[t].files)
    IN  /\ th[t].pc = "open"
        /\ IF call.f \in SourceFiles
           THEN /\ th' = [ th EXCEPT
                             ![t].scanned = @ \cup { call.f },
                             ![t].names = VisitNames(ast_parse(call.f), ""),
                             ![t].pc = "visit" ]
                /\ PATCHED_MODULES' = PATCHED_MODULES \cup { call.module }
           ELSE /\ th' = [ th EXCEPT ![t].pc = "done",
                                     ![t].result = "scan_error" ]
                /\ UNCHANGED PATCHED_MODULES
        /\ UNCHANGED << wrapped, adapter_runs, ncalls, uninstalled, traced,
                        tree >>

\* _patch_file lines 132-133: open and parse; nothing catches the error.
patch_file_parse(t) ==
    LET call == Head(th[t].files)
    IN  /\ th[t].pc = "open"
        /\ IF call.f \in SourceFiles
           THEN th' = [ th EXCEPT
                          ![t].scanned = @ \cup { call.f },
                          ![t].names = VisitNames(ast_parse(call.f), ""),
                          ![t].pc = "visit" ]
           ELSE th' = [ th EXCEPT ![t].pc = "done",
                                  ![t].result = "scan_error" ]
        /\ UNCHANGED << PATCHED_MODULES, wrapped, adapter_runs, ncalls, uninstalled, traced, tree >>

\* visit_FunctionDef lines 114-119: one wrap_function_wrapper, which raises
\* when the name does not resolve on the live module.
patch_file_wrap(t) ==
    LET call == Head(th[t].files)
        name == Head(th[t].names)
    IN  /\ th[t].pc = "visit"
        /\ th[t].names # << >>
        /\ IF name \in LiveAttrs(call.module)
           THEN /\ wrapped' = [ wrapped EXCEPT ![<< call.module, name >>] =
                                                   @ + 1 ]
                /\ th' = [ th EXCEPT ![t].names = Tail(@) ]
           ELSE /\ th' = [ th EXCEPT ![t].pc = "done",
                                     ![t].result = "scan_error" ]
                /\ UNCHANGED wrapped
        /\ UNCHANGED << PATCHED_MODULES, adapter_runs, ncalls, uninstalled, traced, tree >>

\* _patch_file lines 136-137, after visit() returned.
patch_file_mark(t) ==
    /\ th[t].pc = "visit"
    /\ th[t].names = << >>
    /\ PATCHED_MODULES' = PATCHED_MODULES \cup { Head(th[t].files).module }
    /\ th' = [ th EXCEPT ![t].files = Tail(@), ![t].pc = "file" ]
    /\ UNCHANGED << wrapped, adapter_runs, ncalls, uninstalled, traced, tree >>

\* The call returns, or its exception reaches the caller.
Return(t) ==
    /\ th[t].pc = "done"
    /\ th' = [ th EXCEPT ![t] = Idle ]
    /\ UNCHANGED << PATCHED_MODULES, wrapped, adapter_runs, ncalls, uninstalled, traced, tree >>

Step(t) ==
    \/ patch_check(t)
    \/ patch_adapter(t)
    \/ patch_mark(t)
    \/ patch_external(t)
    \/ patch_file_check(t)
    \/ patch_file_parse(t)
    \/ patch_file_wrap(t)
    \/ patch_file_mark(t)
    \/ Return(t)

\* One caller: the calls follow each other.
Next ==
    \/ patch(1, Requests)
    \/ patch_all(1)
    \/ Step(1)

Spec == Init /\ [][Next]_vars

\* Several initialization call sites call patch() at the same time; a thread
\* switch can fall between any two of the steps above.
NextConcurrent ==
    \E t \in Threads :
        \/ patch(t, ConcurrentRequests)
        \/ Step(t)

SpecConcurrent == Init /\ [][NextConcurrent]_vars

\* --------------------------------------------------------------- patch_all

\* patch_all() alone, with any of the catalog's libraries missing.  No
\* identifier of the catalog is external, so no file is ever scanned.
NextPatchAll ==
    \/ patch_all(1)
    \/ patch_check(1)
    \/ patch_adapter(1)
    \/ patch_mark(1)
    \/ patch_external(1)
    \/ Return(1)

SpecPatchAll == InitWith(SUPPORTED_MODULES) /\ [][NextPatchAll]_vars

\* ------------------------------------------------------- external packages

\* patch() of external packages and of their parts; no adapter is involved.
NextExternal ==
    \/ patch(1, ExternalRequests)
    \/ patch_check(1)
    \/ patch_external(1)
    \/ patch_file_check(1)
    \/ patch_file_parse(1)
    \/ patch_file_wrap(1)
    \/ patch_file_mark(1)
    \/ Return(1)

SpecExternal == InitWith({ }) /\ [][NextExternal]_vars

\* ------------------------------------------------------------ _xray_traced

\* xray_recorder.capture(name=...) as a context manager: entering it opens
\* a span of that name, leaving it closes the span (recording whether an
\* exception passed through) and does not suppress the exception.
capture_enter(c, name) ==
    [ c EXCEPT !.span_name = name, !.opened = @ + 1 ]

capture_exit(c, exception) ==
    [ c EXCEPT !.closed = @ + 1, !.closed_with_error = exception ]

\* wrapt calls _xray_traced(wrapped, instance, args, kwargs) for a call of
\* a wrapped callable; line 104: the with statement is entered.
xray_traced_with ==
    /\ traced.pc = "idle"
    /\ \E c \in Callables, args \in Args, kwargs \in Kwargs,
          original \in Originals :
           traced' =
               capture_enter([ NoCall EXCEPT !.pc = "with",
                                             !.wrapped = c,
                                             !.args = args,
                                             !.kwargs = kwargs,
                                             !.original = original ],
                             FunctionName(c[2]))
    /\ UNCHANGED << PATCHED_MODULES, wrapped, adapter_runs, ncalls,
                    uninstalled, tree, th >>

\* xray_traced_call passing the positional arguments only.
xray_traced_call_noKwargs ==
    /\ traced.pc = "with"
    /\ traced' = [ traced EXCEPT !.original_calls = @ + 1,
                                 !.received = << traced.args, << >> >>,
                                 !.outcome = traced.original,
                                 !.pc = "exit" ]
    /\ UNCHANGED << PATCHED_MODULES, wrapped, adapter_runs, ncalls,
                    uninstalled, tree, th >>

\* Line 105: wrapped(*args, **kwargs) returns or raises.
xray_traced_call ==
    /\ traced.pc = "with"
    /\ traced' = [ traced EXCEPT
                     !.original_calls = @ + 1,
                     !.received = << traced.args, traced.kwargs >>,
                     !.outcome = traced.original,
                     !.pc = "exit" ]
    /\ UNCHANGED << PATCHED_MODULES, wrapped, adapter_runs, ncalls,
                    uninstalled, tree, th >>

\* Lines 104-105: the with statement is left, by the return statement or
\* by the exception, and the caller gets what the original produced.
xray_traced_exit ==
    /\ traced.pc = "exit"
    /\ traced' = [ capture_exit(traced, traced.outcome.kind = "raise")
                     EXCEPT !.result = traced.outcome, !.pc = "done" ]
    /\ UNCHANGED << PATCHED_MODULES, wrapped, adapter_runs, ncalls,
                    uninstalled, tree, th >>

\* The caller goes on.
xray_traced_done ==
    /\ traced.pc = "done"
    /\ traced' = NoCall
    /\ UNCHANGED << PATCHED_MODULES, wrapped, adapter_runs, ncalls,
                    uninstalled, tree, th >>

NextTraced ==
    \/ xray_traced_with
    \/ xray_traced_call
    \/ xray_traced_exit
    \/ xray_traced_done

SpecTraced == InitWith({ }) /\ [][NextTraced]_vars

\* ------------------------------------------------------ XRayPatcherVisitor

\* The class bodies of at most MaxBody statements: methods, and a nested
\* class with a method of its own.
ClassMembers ==
    { FunctionDef("a"), FunctionDef("b"),
      ClassDef("In", << FunctionDef("c") >>) }

ClassBodies == UNION { [ 1..n -> ClassMembers ] : n \in 1..MaxBody }

\* The modules the visitor is run on: one class, alone or after a function.
Layouts ==
    { << ClassDef("Out", b) >> : b \in ClassBodies }
        \cup { << FunctionDef("f"), ClassDef("Out", b) >> : b \in ClassBodies }

\* _patch_file line 133: ast.parse returns the tree of some module.
visitor_parse ==
    /\ tree.pc = "none"
    /\ \E body \in Layouts :
           tree' = [ pc |-> "parsed", body |-> body, names |-> << >> ]
    /\ UNCHANGED << PATCHED_MODULES, wrapped, adapter_runs, ncalls,
                    uninstalled, traced, th >>

\* _patch_file line 134: XRayPatcherVisitor(module).visit(tree); names are
\* the names handed to wrap_function_wrapper, in order.
visitor_visit ==
    /\ tree.pc = "parsed"
    /\ tree' = [ tree EXCEPT !.pc = "visited",
                             !.names = VisitNames(tree.body, "") ]
    /\ UNCHANGED << PATCHED_MODULES, wrapped, adapter_runs, ncalls,
                    uninstalled, traced, th >>

NextVisitor ==
    \/ visitor_parse
    \/ visitor_visit

SpecVisitor == InitWith({ }) /\ [][NextVisitor]_vars

\* ------------------------------------------------------------------ claims

\* The identifiers a request resolves to, read off the substitution entries
\* of lines 48-56: 'boto3' -> {botocore}, 'pynamodb' -> {botocore, pynamodb}.
HasEntry(n) == n \in { Id("boto3"), Id("pynamodb") }

Entry(n) ==
    CASE n = Id("boto3") -> { Id("botocore") }
      [] n = Id("pynamodb") -> { Id("botocore"), Id("pynamodb") }
      [] OTHER -> { n }

Resolved(request) == UNION { Entry(n) : n \in request }

\* A name that pkgutil can locate: its path is one of the file system's.
Locatable(n) == replace(n, ".", "/") \in ModulePaths

\* The resolved identifiers of a request that have no adapter and cannot be
\* located.
Unresolvable(request) ==
    { i \in Resolved(request) : i \notin SUPPORTED_MODULES /\ ~Locatable(i) }

Finished(t) == th[t].pc = "done"

\* C1: in sequential use, the adapter of an identifier that is in
\* _PATCHED_MODULES is not run again by a later request and that request gets
\* no error from it; the adapter's patch() completes at most once per
\* identifier.
C1_AdapterRunsOnce ==
    /\ \A i \in SUPPORTED_MODULES : adapter_runs[i] <= 1
    /\ \A t \in Threads :
          /\ th[t].pc = "adapter" => th[t].m \notin PATCHED_MODULES
          /\ th[t].attempted \cap th[t].pre = { }
          /\ th[t].raised \cap th[t].pre = { }

C1_Witness ==
    /\ Finished(1)
    /\ th[1].result = "returned"
    /\ Id("botocore") \in th[1].pre
    /\ Id("botocore") \in th[1].dispatched
    /\ adapter_runs[Id("botocore")] = 1

\* C2: when several threads call patch() for the same identifier, the
\* adapter of an identifier is run by at most one of them, and the callables
\* of a file are wrapped by at most one of them.
C2_OneCallerPatches ==
    /\ \A i \in SUPPORTED_MODULES : adapter_runs[i] <= 1
    /\ \A c \in Callables : wrapped[c] <= 1

\* C3: in sequential use, whatever calls failed before, no callable found by
\* the source scan carries more than one _xray_traced wrapper.
C3_WrappedAtMostOnce == \A c \in Callables : wrapped[c] <= 1

\* C4 as stated: a request that contains a name that is neither supported
\* nor locatable ends with the unsupported error, before any adapter ran or
\* any file was scanned, and leaves _PATCHED_MODULES as it was.
C4_RequestedNamePreflight ==
    \A t \in Threads :
        ( /\ Finished(t)
          /\ \E n \in th[t].modules_to_patch :
                 n \notin SUPPORTED_MODULES /\ ~Locatable(n) )
        => /\ th[t].result = "unsupported"
           /\ th[t].dispatched = { }
           /\ th[t].attempted = { }
           /\ th[t].scanned = { }
           /\ PATCHED_MODULES = th[t].pre

\* C4 as amended: a request one of whose resolved identifiers (after the
\* substitution of lines 48-56) is neither supported nor locatable ends with
\* the unsupported error, before any adapter ran or any file was scanned,
\* and leaves _PATCHED_MODULES as it was.
C4_ResolvedNamePreflight ==
    \A t \in Threads :
        ( Finished(t) /\ Unresolvable(th[t].modules_to_patch) # { } )
        => /\ th[t].result = "unsupported"
           /\ th[t].dispatched = { }
           /\ th[t].attempted = { }
           /\ th[t].scanned = { }
           /\ PATCHED_MODULES = th[t].pre

C4_Witness ==
    /\ Finished(1)
    /\ th[1].modules_to_patch = { Id("requests"), Id("nomod") }
    /\ th[1].result = "unsupported"
    /\ Id("requests") \notin uninstalled
    /\ Id("requests") \notin PATCHED_MODULES

\* C5: patch() ends with the unsupported error exactly when some resolved
\* identifier is neither supported nor locatable, for either value of
\* raise_errors, and the message of that one error names exactly those
\* identifiers, each once.
C5_AggregatedError ==
    \A t \in Threads :
        Finished(t) =>
            LET u == Unresolvable(th[t].modules_to_patch)
                message == th[t].message
            IN  /\ (th[t].result = "unsupported") <=> (u # { })
                /\ { message[k] : k \in DOMAIN message } = u
                /\ Len(message) = Cardinality(u)

C5_Witness ==
    /\ Finished(1)
    /\ ~th[1].raise_errors
    /\ th[1].result = "unsupported"
    /\ Len(th[1].message) = 2

\* C6: a call with raise_errors=False on supported names returns without an
\* exception; every identifier whose adapter ran without raising is in
\* _PATCHED_MODULES, none whose adapter raised is, and every identifier of
\* the request was handled.
C6_BestEffort ==
    \A t \in Threads :
        ( /\ Finished(t)
          /\ ~th[t].raise_errors
          /\ th[t].modules_to_patch \subseteq SUPPORTED_MODULES )
        => /\ th[t].result = "returned"
           /\ (th[t].attempted \ th[t].raised) \subseteq PATCHED_MODULES
           /\ th[t].raised \cap PATCHED_MODULES = { }
           /\ Resolved(th[t].modules_to_patch)
                  \subseteq PATCHED_MODULES \cup th[t].raised

C6_Witness ==
    /\ Finished(1)
    /\ th[1].entry = "patch"
    /\ ~th[1].raise_errors
    /\ th[1].raised = { Id("pynamodb") }
    /\ th[1].attempted = { Id("botocore"), Id("pynamodb"), Id("requests") }

\* C7 as stated: when an adapter raises under raise_errors=True the error
\* reaches the caller and the other native identifiers of the request are
\* still dispatched.
C7_OthersStillAttempted ==
    \A t \in Threads :
        ( Finished(t) /\ th[t].result = "adapter_error" )
        => /\ th[t].raise_errors
           /\ th[t].native_modules = { }

\* C7 as amended: under raise_errors=True the first adapter that raises ends
\* the call with its error: the native identifiers not yet iterated are not
\* dispatched and no external module is scanned, while the identifiers
\* patched before it stay in _PATCHED_MODULES; and a strict call that gets
\* past the pre-flight check with an identifier whose adapter raises always
\* ends with that error.
C7_StrictAborts ==
    \A t \in Threads :
        Finished(t) =>
            /\ th[t].result = "adapter_error" =>
                  /\ th[t].raise_errors
                  /\ Cardinality(th[t].raised) = 1
                  /\ th[t].dispatched \cap th[t].native_modules = { }
                  /\ th[t].dispatched \cup th[t].native_modules =
                         Resolved(th[t].modules_to_patch)
                             \cap SUPPORTED_MODULES
                  /\ th[t].scanned = { }
                  /\ (th[t].attempted \ th[t].raised)
                         \subseteq PATCHED_MODULES
                  /\ th[t].raised \cap PATCHED_MODULES = { }
            /\ ( /\ th[t].raise_errors
                 /\ Unresolvable(th[t].modules_to_patch) = { }
                 /\ \E i \in Resolved(th[t].modules_to_patch) :
                        /\ i \in SUPPORTED_MODULES
                        /\ i \in uninstalled
                        /\ i \notin th[t].pre )
               => th[t].result = "adapter_error"

C7_Witness ==
    /\ Finished(1)
    /\ th[1].result = "adapter_error"
    /\ th[1].native_modules # { }
    /\ th[1].attempted \ th[1].raised # { }

\* C8: an error of the source scan follows raise_errors: it reaches the
\* caller only under raise_errors=True.
C8_ScanErrorFollowsPolicy ==
    \A t \in Threads :
        ( Finished(t) /\ th[t].result = "scan_error" ) => th[t].raise_errors

\* C9: a patch() of the package pkg that returns has wrapped f, C.m1, C.m2
\* and the sub-package's g and has put pkg and pkg.sub in _PATCHED_MODULES.
C9_RecursiveCoverage ==
    \A t \in Threads :
        ( /\ Finished(t)
          /\ th[t].result = "returned"
          /\ <<"pkg">> \in th[t].modules_to_patch )
        => /\ \A a \in LiveAttrs(<<"pkg">>) : wrapped[<< <<"pkg">>, a >>] = 1
           /\ wrapped[<< <<"pkg", ".", "sub">>, "g" >>] = 1
           /\ { <<"pkg">>, <<"pkg", ".", "sub">> } \subseteq PATCHED_MODULES

\* C10 as stated: every identifier of a requested name's entry is
\* dispatched, and a requested name that has an entry is itself never
\* probed, dispatched or put in _PATCHED_MODULES.
C10_EntryReplacesName ==
    \A t \in Threads :
        \A n \in th[t].modules_to_patch :
            HasEntry(n) =>
                /\ Finished(t) => Entry(n) \subseteq th[t].dispatched
                /\ n \notin th[t].probed
                /\ n \notin th[t].dispatched
                /\ n \notin PATCHED_MODULES

\* C10 as amended: the identifiers a call probes or dispatches are among
\* those of the entries of the requested names (a name without an entry
\* standing for itself), all of them are dispatched when the call returns
\* without an error, and a requested name is probed, dispatched or put in
\* _PATCHED_MODULES only if some entry contains it: 'boto3' never is,
\* 'pynamodb' is.
C10_Expansion ==
    \A t \in Threads :
        LET request == th[t].modules_to_patch
        IN  /\ th[t].dispatched \subseteq Resolved(request)
            /\ th[t].probed \subseteq Resolved(request)
            /\ (Finished(t) /\ th[t].result = "returned")
                   => th[t].dispatched = Resolved(request)
            /\ Id("boto3") \notin
                   th[t].probed \cup th[t].dispatched \cup PATCHED_MODULES

C10_Witness ==
    /\ Finished(1)
    /\ th[1].result = "returned"
    /\ th[1].modules_to_patch = { Id("pynamodb") }
    /\ th[1].dispatched = { Id("botocore"), Id("pynamodb") }
    /\ { Id("botocore"), Id("pynamodb") } \subseteq PATCHED_MODULES

\* C11: every invocation of _xray_traced calls the original exactly once
\* with the positional and keyword arguments of the caller, hands the
\* caller what the original returned or raised, and opens and closes
\* exactly one span, on the return path and on the raise path.
C11_WrapperTransparent ==
    /\ traced.original_calls <= 1
    /\ traced.closed <= traced.opened
    /\ traced.opened <= 1
    /\ traced.pc \in { "with", "exit" } => traced.opened = 1 /\ traced.closed = 0
    /\ traced.pc = "done" =>
           /\ traced.original_calls = 1
           /\ traced.received = << traced.args, traced.kwargs >>
           /\ traced.result = traced.original
           /\ traced.opened = 1
           /\ traced.closed = 1
           /\ traced.closed_with_error = (traced.original.kind = "raise")

\* An invocation with both kinds of argument whose original raised is over.
C11_Witness ==
    /\ traced.pc = "done"
    /\ traced.args # << >>
    /\ traced.kwargs # << >>
    /\ traced.result = [ kind |-> "raise", value |-> "ValueError" ]
    /\ traced.closed = 1

\* C20: the span the wrapper starts carries the qualified name under which
\* the callable was registered ('ClassName.methodName' or 'functionName').
C20_SpanNamedAsRegistered ==
    traced.pc # "idle" => traced.span_name = traced.wrapped[2]

\* The catalog patch_all() works on: SUPPORTED_MODULES with double_patch,
\* NO_DOUBLE_PATCH (no 'httplib') without.
Catalog(t) ==
    IF th[t].entry = "patch_all_double"
    THEN { Id("botocore"), Id("pynamodb"), Id("requests"), Id("sqlite3"),
           Id("mysql"), Id("httplib"), Id("pymongo"), Id("psycopg2") }
    ELSE { Id("botocore"), Id("pynamodb"), Id("requests"), Id("sqlite3"),
           Id("mysql"), Id("pymongo"), Id("psycopg2") }

\* C12: whatever adapters fail and whatever double_patch is, patch_all()
\* ends by returning, never with an exception; it hands exactly the
\* identifiers of the chosen catalog to _patch_module, runs the adapter of
\* each one that was not in the registry, and when it returns every catalog
\* identifier whose adapter did not fail is in _PATCHED_MODULES.
C12_PatchAllTolerant ==
    \A t \in Threads :
        th[t].entry \in { "patch_all", "patch_all_double" } =>
            /\ th[t].result \in { "none", "returned" }
            /\ th[t].dispatched \subseteq Catalog(t)
            /\ th[t].probed = { }
            /\ Finished(t) =>
                   /\ th[t].result = "returned"
                   /\ th[t].dispatched = Catalog(t)
                   /\ th[t].attempted = Catalog(t) \ th[t].pre
                   /\ th[t].raised = th[t].attempted \cap uninstalled
                   /\ Catalog(t) \ uninstalled \subseteq PATCHED_MODULES
                   /\ PATCHED_MODULES \cap uninstalled = { }

\* patch_all(double_patch=True) returned although an adapter raised, and
\* 'httplib' is patched.
C12_Witness ==
    /\ Finished(1)
    /\ th[1].entry = "patch_all_double"
    /\ th[1].raised # { }
    /\ Id("httplib") \in PATCHED_MODULES
    /\ th[1].result = "returned"

\* The file that holds the source of the module named `module`: the plain
\* module's file or the package's __init__.py.
IsFileOf(f, module) ==
    LET path == replace(module, ".", "/")
    IN  \/ f = path \o << ".py" >>
        \/ f = path \o << "/", "__init__.py" >>

\* C13: an identifier is in _PATCHED_MODULES only if an attempt for exactly
\* that identifier completed: its adapter's patch() returned, or its file
\* was opened and parsed and every name of it was wrapped.  While an
\* attempt is under way the identifier is not yet in the registry, and an
\* attempt that fails leaves it out.
C13_RegisteredOnlyWhenCompleted ==
    /\ \A i \in PATCHED_MODULES \cap SUPPORTED_MODULES :
           adapter_runs[i] >= 1 /\ i \notin uninstalled
    /\ \A i \in PATCHED_MODULES \ SUPPORTED_MODULES :
           \E f \in SourceFiles :
               /\ IsFileOf(f, i)
               /\ \A k \in DOMAIN VisitNames(ast_parse(f), "") :
                      LET name == VisitNames(ast_parse(f), "")[k]
                      IN  name \in LiveAttrs(i) /\ wrapped[<< i, name >>] >= 1
    /\ \A t \in Threads :
           /\ th[t].raised \cap PATCHED_MODULES = { }
           /\ th[t].pc \in { "adapter", "mark" } =>
                  th[t].m \notin PATCHED_MODULES
           /\ th[t].pc \in { "open", "visit" } =>
                  Head(th[t].files).module \notin PATCHED_MODULES
           /\ th[t].result = "scan_error" =>
                  Head(th[t].files).module \notin PATCHED_MODULES

\* The scan of a package failed at the package's own file after a
\* submodule was scanned: the submodule is recorded, the package is not.
C13_Witness ==
    /\ Finished(1)
    /\ th[1].result = "scan_error"
    /\ << "ns", ".", "m" >> \in PATCHED_MODULES
    /\ << "ns" >> \notin PATCHED_MODULES
    /\ Head(th[1].files).module = << "ns" >>

\* The registry keys the scan of the external identifier e records when
\* none of its files fails.
ExternalKeys(e) ==
    LET calls == external_recursive_patch(e, << >>)
    IN  { calls[k].module : k \in DOMAIN calls }

\* What a call of patch() for `request` adds to the registry when every
\* resolved identifier is processed: a function of the request and of the
\* environment, not of the order of iteration.
ExpectedPatched(request) ==
    ( ( Resolved(request) \cap SUPPORTED_MODULES ) \ uninstalled )
        \cup UNION { ExternalKeys(e) :
                         e \in Resolved(request) \ SUPPORTED_MODULES }

\* C15 as stated: under both raise_errors values, a call that passed the
\* check for unsupported names ends with every resolved identifier
\* processed and with the registry that the request and the failing
\* adapters determine, whatever the order of iteration.
C15_OrderIndependent ==
    \A t \in Threads :
        Finished(t) /\ th[t].result # "unsupported" =>
            /\ th[t].dispatched = Resolved(th[t].modules_to_patch)
            /\ PATCHED_MODULES =
                   th[t].pre \cup ExpectedPatched(th[t].modules_to_patch)

\* C15 amended: a call of patch() that returns without raising has
\* processed every resolved identifier, and ends with the registry that
\* the request and the failing adapters determine, whatever the order of
\* iteration.
C15_OrderIndependentOnReturn ==
    \A t \in Threads :
        Finished(t) /\ th[t].result = "returned" =>
            /\ th[t].dispatched = Resolved(th[t].modules_to_patch)
            /\ PATCHED_MODULES =
                   th[t].pre \cup ExpectedPatched(th[t].modules_to_patch)

\* A best-effort call over three resolved identifiers returned although
\* one adapter raised.
C15_Witness ==
    /\ Finished(1)
    /\ th[1].entry = "patch"
    /\ th[1].result = "returned"
    /\ th[1].raised # { }
    /\ Cardinality(th[1].dispatched) = 3
    /\ Cardinality(PATCHED_MODULES) = 2

\* C16: the classifier splits the resolved identifiers of a call into
\* native (in SUPPORTED_MODULES), external (not supported, locatable) and
\* unsupported (not supported, not locatable): pairwise disjoint sets that
\* cover the resolved set.  A native identifier is never probed and never scanned by
\* _external_recursive_patch; an external one is never handed to
\* _patch_module.
C16_Partition ==
    /\ \A t \in Threads :
           LET request == th[t].modules_to_patch
               modules == Resolved(request)
               native == NativeModules(modules)
               external == ExternalModules(modules)
               unsupported == UnsupportedModules(modules)
           IN  /\ native = { i \in modules : i \in SUPPORTED_MODULES }
               /\ external = { i \in modules :
                                  i \notin SUPPORTED_MODULES /\ Locatable(i) }
               /\ unsupported = Unresolvable(request)
               /\ native \cap external = { }
               /\ native \cap unsupported = { }
               /\ external \cap unsupported = { }
               /\ native \cup external \cup unsupported = modules
    /\ \A t \in Threads :
           /\ th[t].probed \cap SUPPORTED_MODULES = { }
           /\ th[t].native_modules \subseteq SUPPORTED_MODULES
           /\ th[t].external_modules \cap SUPPORTED_MODULES = { }
           /\ th[t].attempted \subseteq SUPPORTED_MODULES
           /\ th[t].pc \in { "adapter", "mark" } =>
                  th[t].m \in SUPPORTED_MODULES
           /\ th[t].pc \in { "file", "open", "visit" } =>
                  th[t].m \notin SUPPORTED_MODULES /\ Locatable(th[t].m)
           /\ th[t].pc \notin { "idle", "done" } =>
                  /\ th[t].native_modules \cap th[t].external_modules = { }
                  /\ th[t].dispatched \cup th[t].native_modules
                         \cup th[t].external_modules
                     = Resolved(th[t].modules_to_patch)

\* A request with a native and an external identifier: the native one went
\* through its adapter, the external one is being scanned.
C16_Witness ==
    /\ th[1].pc = "visit"
    /\ th[1].modules_to_patch = { Id("requests"), << "pkg" >> }
    /\ th[1].m = << "pkg" >>
    /\ th[1].attempted = { Id("requests") }
    /\ th[1].probed = { << "pkg" >> }

\* C19: _PATCHED_MODULES is empty at the start and no step of patch_all,
\* patch, _patch, _patch_file or _external_recursive_patch, whether it
\* succeeds or fails, removes an identifier from it.
C19_Monotonic ==
    /\ PATCHED_MODULES = { }
    /\ [][PATCHED_MODULES \subseteq PATCHED_MODULES']_vars

\* A second call failed, in an adapter or in a scan, after it had added to
\* a registry that the first call had filled: both additions are there.
C19_Witness ==
    /\ Finished(1)
    /\ th[1].result \in { "adapter_error", "scan_error" }
    /\ th[1].pre # { }
    /\ th[1].pre \subseteq PATCHED_MODULES
    /\ PATCHED_MODULES # th[1].pre

\* The file f lies in the directory `path` or in a directory below it.
IsBelow(f, path) ==
    /\ Len(f) > Len(path) + 1
    /\ SubSeq(f, 1, Len(path)) = path
    /\ f[Len(path) + 1] = "/"

\* C17: when patch() of an external package that has submodules and whose
\* own file defines nothing returns, the package is in _PATCHED_MODULES
\* and every file of the package, in the package itself and in its
\* sub-packages, was scanned by this call or is that of a module already
\* recorded on entry, with every function of it wrapped.
C17_EmptyPackagePatched ==
    \A t \in Threads :
        \A P \in th[t].modules_to_patch :
            LET path == replace(P, ".", "/")
                init == path \o << "/", "__init__.py" >>
            IN  ( /\ Finished(t)
                  /\ th[t].result = "returned"
                  /\ iter_modules(path) # << >>
                  /\ init \in SourceFiles
                  /\ ast_parse(init) = << >> ) =>
                    /\ P \in PATCHED_MODULES
                    /\ \A f \in SourceFiles :
                           IsBelow(f, path) =>
                               /\ \/ f \in th[t].scanned
                                  \/ \E key \in th[t].pre : IsFileOf(f, key)
                               /\ \E key \in PATCHED_MODULES : IsFileOf(f, key)
                               /\ \A m \in LiveModules :
                                      IsFileOf(f, m) =>
                                          \A a \in LiveAttrs(m) :
                                              wrapped[<< m, a >>] >= 1

\* patch(['emp']) on an empty registry returned: the four files of the
\* package were scanned and the package is recorded.
C17_Witness ==
    /\ Finished(1)
    /\ th[1].result = "returned"
    /\ th[1].modules_to_patch = { << "emp" >> }
    /\ th[1].pre = { }
    /\ Cardinality(th[1].scanned) = 4
    /\ << "emp" >> \in PATCHED_MODULES
    /\ wrapped[<< << "emp", ".", "a" >>, "k" >>] = 1

\* The dotted name under which the module of source file f is imported
\* and requested: the file's path without '.py' or '/__init__.py', its
\* separators replaced by dots.
DottedName(f) ==
    LET path == IF f[Len(f)] = ".py"
                THEN SubSeq(f, 1, Len(f) - 1)
                ELSE SubSeq(f, 1, Len(f) - 2)
    IN  replace(path, "/", ".")

\* C18: the identifier under which _patch_file checks and records a
\* module reached by recursion is the module's dotted name, the same
\* under which it is requested directly.
C18_KeyIsDottedName ==
    \A t \in Threads :
        th[t].pc \in { "open", "visit" } =>
            Head(th[t].files).module = DottedName(Head(th[t].files).f)

\* The names the scan is to register for the statements `body` of the
\* class `class` ("" at module level): every function under the name of
\* the class whose body it stands in, whatever precedes it there.
RECURSIVE QualifiedNames(_, _)
QualifiedNames(body, class) ==
    IF body = << >> THEN << >>
    ELSE LET node == Head(body)
         IN  ( IF node.t = "FunctionDef"
               THEN << IF class = "" THEN node.name
                       ELSE class \o "." \o node.name >>
               ELSE QualifiedNames(node.body, node.name) )
             \o QualifiedNames(Tail(body), class)

\* C14: for every class layout the visitor registers each method as
\* 'ClassName.methodName' of the class that directly contains it and each
\* module-level function under its bare name.
C14_QualifiedByContainingClass ==
    tree.pc = "visited" => tree.names = QualifiedNames(tree.body, "")

=============================================================================
